---- MODULE Spec2Model ----
(***************************************************************************)
(* lightgbm-stock-predictor: the trade-simulation state machine of         *)
(* src/backtester.py (Backtester), the walk-forward scheduling loop of     *)
(* src/model.py (walk_forward_training), run_pipeline of src/main.py, the  *)
(* signal generation of src/signal_generator.py, and of the batch tools    *)
(* BatchRunner (src/scripts/batch_run.py), the batch Backtester            *)
(* (src/src/backtest.py) and DataManager (src/src/data_manager.py).        *)
(*                                                                         *)
(* Numbers.  The program computes in binary floating point; the model      *)
(* computes in exact decimal fixed point.  Money is an integer number of   *)
(* 1/MoneyScale currency units, a rate (fee, slippage) an integer number   *)
(* of 1/RateScale, a fraction (confidence, position_size) an integer       *)
(* number of 1/FracScale.  Prices are whole multiples of 100 and rates     *)
(* whole multiples of 0.001, so every amount the code computes is a whole  *)
(* number of money units and no division below drops a remainder, except   *)
(* the two the code itself floors (// on line 53, int() on line 79).       *)
(***************************************************************************)
EXTENDS Integers, Sequences, FiniteSets, TLC

VARIABLES
    cfg,          \* config.BACKTEST_CONFIG, read by Backtester.__init__
    args,         \* the arguments the Backtester was constructed with
    backtester,   \* the Backtester instance (self)
    pc,           \* "new" | "idle" | "running" | "done": position in run_backtest
    df,           \* the DataFrame given to the current run_backtest call
    i,            \* number of rows of df the loop has processed
    results,      \* what the last run_backtest call returned (<<>>: nothing yet)
    runs,         \* number of run_backtest calls completed on this instance
    prev,         \* input and histories of the previous completed run (<<>>: none)
    wf,           \* walk_forward_training's arguments: len(df), train_period, test_period
    start_idx,    \* walk_forward_training's start_idx
    wf_results,   \* walk_forward_training's results list
    trainer_calls,\* number of predictor.train calls made
    predictors,   \* the StockPredictor objects walk_forward_training has made, by reference
    wf_pc,        \* "idle" | "loop" | "returned" | "raised"
    pl_pc,        \* run_pipeline: "idle" | "training" | "trained" | "returned"
    pl_results,   \* what run_pipeline returned (<<>>: nothing yet)
    stocks,       \* BatchRunner.run: the stock list, one unit per position
    workers,      \* BatchRunner.workers: size of the thread pool
    futures,      \* per submitted unit: "pending" | "running" | "finished"
    finished_order,\* the units in the order their futures finished
    ac_ready,     \* as_completed: futures found finished when iteration began, not yet yielded
    yielded,      \* the units as_completed has yielded, in order
    batch_results,\* BatchRunner.results
    lines,        \* the status lines printed by the collecting loop
    summary,      \* what print_summary printed (<<>>: not called yet)
    batch_pc,     \* "idle" | "submit" | "collect" | "returned"
    sig_pc,       \* signal generation: "idle" | "called" | "returned" | "raised"
    sig_in,       \* the arguments of the signal-generation call in progress
    sig_out,      \* what the call returned (<<>>: nothing)
    bb_pc,        \* batch Backtester.run_backtest: "idle" | "called" | "returned"
    bb_self,      \* the batch Backtester instance
    bb_in,        \* the frame run_backtest was called with
    bb_out,       \* what run_backtest returned (<<>>: nothing)
    dm_pc,        \* get_stock_data: "idle" | "called" | "download" | "downloaded" | "failed" | "returned"
    dm_in,        \* the call's force_update, the configured MAX_RETRIES and the cache as it was
    files,        \* the cache files in the stock's directory
    attempt_log,  \* the outcomes of the download attempts made, in order
    dm_out        \* what get_stock_data returned (<<>>: nothing)

vars == <<cfg, args, backtester, pc, df, i, results, runs, prev, wf, start_idx, wf_results, trainer_calls, predictors, wf_pc, pl_pc, pl_results, stocks, workers, futures, finished_order, ac_ready, yielded, batch_results, lines, summary, batch_pc, sig_pc, sig_in, sig_out, bb_pc, bb_self, bb_in, bb_out, dm_pc, dm_in, files, attempt_log, dm_out>>
bt_vars == <<cfg, args, backtester, pc, df, i, results, runs, prev>>
wf_vars == <<wf, start_idx, wf_results, trainer_calls, predictors, wf_pc>>
pl_vars == <<pl_pc, pl_results>>
\* the variables of neither the backtester nor walk_forward_training
batch_vars == <<stocks, workers, futures, finished_order, ac_ready, yielded, batch_results, lines, summary, batch_pc>>
sig_vars == <<sig_pc, sig_in, sig_out>>
bb_vars == <<bb_pc, bb_self, bb_in, bb_out>>
dm_vars == <<dm_pc, dm_in, files, attempt_log, dm_out>>
ext_vars == <<pl_vars, batch_vars, sig_vars, bb_vars, dm_vars>>
\* what the run_pipeline steps, the batch steps and the signal steps leave alone
not_pl_vars == <<bt_vars, batch_vars, sig_vars, bb_vars, dm_vars>>
not_batch_vars == <<bt_vars, wf_vars, pl_vars, sig_vars, bb_vars, dm_vars>>
not_sig_vars == <<bt_vars, wf_vars, pl_vars, batch_vars, bb_vars, dm_vars>>
not_bb_vars == <<bt_vars, wf_vars, pl_vars, batch_vars, sig_vars, dm_vars>>
not_dm_vars == <<bt_vars, wf_vars, pl_vars, batch_vars, sig_vars, bb_vars>>

-----------------------------------------------------------------------------
(* Units *)

MoneyScale == 10 ^ 4
RateScale == 10 ^ 3
FracScale == 10 ^ 1

\* floor(x * a / b) for 0 <= a, 0 < b, computed without forming x * a
MulDiv(x, a, b) == (x \div b) * a + ((x % b) * a) \div b

Min(a, b) == IF a <= b THEN a ELSE b

-----------------------------------------------------------------------------
(* Bounds of the explored inputs *)

\* rows of a DataFrame given to run_backtest
MaxRows == 3
\* run_backtest calls on one Backtester instance
MaxRuns == 2
\* largest portfolio worth, in currency units, explored (money units are 32-bit here)
MaxMoney == 200000
\* walk_forward_training: len(df), train_period and test_period explored in full
MaxLen == 8
MaxTrain == 3
MaxTest == 3
\* run_pipeline: len(processed_data) explored up to 100 * MaxHundreds rows
MaxHundreds == 24
\* BatchRunner.run: units in a stock list and worker threads, every interleaving explored
MaxUnits == 3
MaxWorkers == 2
\* generate_trading_strategy: rows of the frame and number of predictions
MaxSignalRows == 3
MaxPredictions == 2
\* batch Backtester.run_backtest: rows of a frame it is called with directly
MaxBatchRows == 3
\* DataManager: the largest MAX_RETRIES configured
MaxRetriesLimit == 3

-----------------------------------------------------------------------------
(* Configuration: src/config.py BACKTEST_CONFIG *)

\* initial_cash in currency units; transaction_fee and slippage 0.001, in 1/RateScale
DefaultInitialCash == 100000
DefaultTransactionFee == 1
DefaultSlippage == 1

\* BACKTEST_CONFIG is a dict of the configuration file that Backtester.__init__
\* reads when it runs (line 19): the file as shipped, and the file edited to charge
\* no fee and no slippage.
BACKTEST_CONFIG == [initial_cash |-> DefaultInitialCash * MoneyScale, transaction_fee |-> DefaultTransactionFee, slippage |-> DefaultSlippage]
Configs == {BACKTEST_CONFIG, [BACKTEST_CONFIG EXCEPT !.transaction_fee = 0, !.slippage = 0]}

\* Python's None as a constructor argument
None == -1

\* Python's  x or d : d when x is None or falsy (0), else x
Or(x, d) == IF x = None \/ x = 0 THEN d ELSE x

\* The constructor calls explored: Backtester(), the call of Scenario A, two
\* calls that name one rate each, and a call that names a small initial cash.
NoArgs == [initial_cash |-> None, transaction_fee |-> None, slippage |-> None]
ScenarioArgs == [initial_cash |-> 100000 * MoneyScale, transaction_fee |-> 0, slippage |-> 0]
\* an account that can pay for one or two shares
SmallArgs == [initial_cash |-> 250 * MoneyScale, transaction_fee |-> None, slippage |-> None]
CtorArgs == {NoArgs, ScenarioArgs, [initial_cash |-> 50000 * MoneyScale, transaction_fee |-> None, slippage |-> 1], [initial_cash |-> 0, transaction_fee |-> 1, slippage |-> None], SmallArgs}
NoInstance == [initial_cash |-> 0, transaction_fee |-> 0, slippage |-> 0, cash |-> 0, position |-> 0, position_value |-> 0, total_value |-> 0, trade_log |-> <<>>, portfolio_history |-> <<>>]

\* Backtester.__init__
Backtester_init(config, a) ==
    LET ic == Or(a.initial_cash, config.initial_cash)
    IN [initial_cash |-> ic,
        transaction_fee |-> Or(a.transaction_fee, config.transaction_fee),
        slippage |-> Or(a.slippage, config.slippage),
        cash |-> ic,
        position |-> 0,
        position_value |-> 0,
        total_value |-> ic,
        trade_log |-> <<>>,
        portfolio_history |-> <<>>]

-----------------------------------------------------------------------------
(* Input rows *)

\* np.nan in the signal column
NaN == 99

Prices == {100, 200}
\* <<signal, confidence, position_size>>, the last two in 1/FracScale
Orders == {<<0, 0, 0>>, <<NaN, 0, 0>>, <<1, 10, 1>>, <<1, 10, 10>>, <<-1, 10, 10>>, <<-1, 5, 10>>}
Rows == [close : Prices, order : Orders]
\* the rows of the replayed runs
ReplayRows == {[close |-> 100, order |-> <<1, 10, 1>>], [close |-> 100, order |-> <<-1, 10, 10>>], [close |-> 200, order |-> <<0, 0, 0>>]}

RECURSIVE SeqsUpTo(_, _)
SeqsUpTo(S, n) == IF n = 0 THEN {<<>>} ELSE LET shorter == SeqsUpTo(S, n - 1) IN shorter \cup {Append(s, x) : s \in {t \in shorter : Len(t) = n - 1}, x \in S}

\* A DataFrame: rows in the order iterrows() yields them.  Their dates are
\* ascending (1, 2, ...) or, when the caller passes the frame reversed, descending.
DataFrame(rows, ascending) == [k \in 1..Len(rows) |-> [date |-> IF ascending THEN k ELSE Len(rows) + 1 - k, close |-> rows[k].close, signal |-> rows[k].order[1], confidence |-> rows[k].order[2], position_size |-> rows[k].order[3]]]
DataFrames == {DataFrame(rows, asc) : rows \in SeqsUpTo(Rows, MaxRows), asc \in BOOLEAN}
ReplayFrames == {DataFrame(rows, TRUE) : rows \in SeqsUpTo(ReplayRows, MaxRows)}

-----------------------------------------------------------------------------
(* Backtester.execute_trade *)

\* line 48 with the sign of line 49: the slippage lowers the price of a BUY
buy_price_Favourable(self, price) == price * (RateScale - self.slippage) * (MoneyScale \div RateScale)

\* price * (1 + slippage) and price * (1 - slippage), in money units
buy_price(self, price) == price * (RateScale + self.slippage) * (MoneyScale \div RateScale)
sell_price(self, price) == price * (RateScale - self.slippage) * (MoneyScale \div RateScale)

\* cash * position_size * confidence, floored to a money unit; the code tests the
\* unfloored product for > 0, which is the test  cash > 0 and fraction > 0
available_cash(self, confidence, position_size) == MulDiv(self.cash, position_size * confidence, FracScale * FracScale)
available_cash_positive(self, confidence, position_size) == self.cash > 0 /\ position_size * confidence > 0

\* int(position * position_size * confidence)
available_position(self, confidence, position_size) == (self.position * position_size * confidence) \div (FracScale * FracScale)

\* amount * transaction_fee
fee_of(self, amount) == MulDiv(amount, self.transaction_fee, RateScale)

\* line 59 without the comparison: every BUY of a positive quantity is filled
affordable_NoCheck(self, total_cost) == TRUE

\* line 59: the solvency pre-check of a BUY
affordable(self, total_cost) == total_cost <= self.cash

\* lines 60-75 with line 61 subtracting, as line 86 of the SELL branch does
buy_fill_Subtracts(self, date, price, quantity, cost, fee) ==
    LET total_cost == cost + fee
        cash == self.cash - total_cost
        position == self.position - quantity
    IN [self EXCEPT !.cash = cash,
                    !.position = position,
                    !.position_value = position * price * MoneyScale,
                    !.trade_log = Append(@, [date |-> date, action |-> "BUY", price |-> buy_price(self, price), quantity |-> quantity, cost |-> cost, fee |-> fee, total_cost |-> total_cost, cash_after |-> cash, position_after |-> position])]

\* lines 60-75: a filled BUY
buy_fill(self, date, price, quantity, cost, fee) ==
    LET total_cost == cost + fee
        cash == self.cash - total_cost
        position == self.position + quantity
    IN [self EXCEPT !.cash = cash,
                    !.position = position,
                    !.position_value = position * price * MoneyScale,
                    !.trade_log = Append(@, [date |-> date, action |-> "BUY", price |-> buy_price(self, price), quantity |-> quantity, cost |-> cost, fee |-> fee, total_cost |-> total_cost, cash_after |-> cash, position_after |-> position])]

\* lines 85-100 with line 85 assigning (=) where the code adds (+=)
sell_fill_Overwrites(self, date, price, quantity, revenue, fee) ==
    LET total_revenue == revenue - fee
        cash == total_revenue
        position == self.position - quantity
    IN [self EXCEPT !.cash = cash,
                    !.position = position,
                    !.position_value = position * price * MoneyScale,
                    !.trade_log = Append(@, [date |-> date, action |-> "SELL", price |-> sell_price(self, price), quantity |-> quantity, revenue |-> revenue, fee |-> fee, total_revenue |-> total_revenue, cash_after |-> cash, position_after |-> position])]

\* lines 85-100: a filled SELL
sell_fill(self, date, price, quantity, revenue, fee) ==
    LET total_revenue == revenue - fee
        cash == self.cash + total_revenue
        position == self.position - quantity
    IN [self EXCEPT !.cash = cash,
                    !.position = position,
                    !.position_value = position * price * MoneyScale,
                    !.trade_log = Append(@, [date |-> date, action |-> "SELL", price |-> sell_price(self, price), quantity |-> quantity, revenue |-> revenue, fee |-> fee, total_revenue |-> total_revenue, cash_after |-> cash, position_after |-> position])]

\* line 79 without int(available_position): the whole position is sold
sell_quantity_WholePosition(self, confidence, position_size) == self.position

\* line 79
sell_quantity(self, confidence, position_size) == Min(available_position(self, confidence, position_size), self.position)

\* execute_trade with an else branch added to the if of line 59: a BUY that the
\* cash does not cover is filled with one share less
execute_trade_PartialFill(self, date, signal, price, confidence, position_size) ==
    IF signal = 1 /\ available_cash_positive(self, confidence, position_size)
    THEN LET quantity == available_cash(self, confidence, position_size) \div buy_price(self, price)
             cost == quantity * buy_price(self, price)
             fee == fee_of(self, cost)
             less == (quantity - 1) * buy_price(self, price)
         IN IF quantity > 0 /\ affordable(self, cost + fee)
            THEN buy_fill(self, date, price, quantity, cost, fee)
            ELSE IF quantity > 1 /\ affordable(self, less + fee_of(self, less))
            THEN buy_fill(self, date, price, quantity - 1, less, fee_of(self, less))
            ELSE self
    ELSE IF signal = -1 /\ self.position > 0
    THEN LET quantity == sell_quantity(self, confidence, position_size)
             revenue == quantity * sell_price(self, price)
             fee == fee_of(self, revenue)
         IN IF quantity > 0
            THEN sell_fill(self, date, price, quantity, revenue, fee)
            ELSE self
    ELSE self

\* Backtester.execute_trade: lines 43-100
execute_trade(self, date, signal, price, confidence, position_size) ==
    IF signal = 1 /\ available_cash_positive(self, confidence, position_size)
    THEN LET quantity == available_cash(self, confidence, position_size) \div buy_price(self, price)
             cost == quantity * buy_price(self, price)
             fee == fee_of(self, cost)
         IN IF quantity > 0 /\ affordable(self, cost + fee)
            THEN buy_fill(self, date, price, quantity, cost, fee)
            ELSE self
    ELSE IF signal = -1 /\ self.position > 0
    THEN LET quantity == sell_quantity(self, confidence, position_size)
             revenue == quantity * sell_price(self, price)
             fee == fee_of(self, revenue)
         IN IF quantity > 0
            THEN sell_fill(self, date, price, quantity, revenue, fee)
            ELSE self
    ELSE self

\* update_portfolio_value marking the position at the BUY fill price
update_portfolio_value_AtFill(self, date, price) ==
    LET position_value == self.position * buy_price(self, price)
        total_value == self.cash + position_value
    IN [self EXCEPT !.position_value = position_value,
                    !.total_value = total_value,
                    !.portfolio_history = Append(@, [date |-> date, cash |-> self.cash, position |-> self.position, position_value |-> position_value, total_value |-> total_value, price |-> price])]

\* Backtester.update_portfolio_value
update_portfolio_value(self, date, price) ==
    LET position_value == self.position * price * MoneyScale
        total_value == self.cash + position_value
    IN [self EXCEPT !.position_value = position_value,
                    !.total_value = total_value,
                    !.portfolio_history = Append(@, [date |-> date, cash |-> self.cash, position |-> self.position, position_value |-> position_value, total_value |-> total_value, price |-> price])]

-----------------------------------------------------------------------------
(* Backtester.run_backtest *)

\* lines 135-141 without line 137: the position survives into the next run
reset_KeepsPosition(self) == [self EXCEPT !.cash = self.initial_cash, !.position_value = 0, !.total_value = self.initial_cash, !.trade_log = <<>>, !.portfolio_history = <<>>]

\* lines 135-141 without line 140: the trade log survives into the next run
reset_KeepsTradeLog(self) == [self EXCEPT !.cash = self.initial_cash, !.position = 0, !.position_value = 0, !.total_value = self.initial_cash, !.portfolio_history = <<>>]

\* lines 135-141: the reset at the start of a run
reset(self) == [self EXCEPT !.cash = self.initial_cash, !.position = 0, !.position_value = 0, !.total_value = self.initial_cash, !.trade_log = <<>>, !.portfolio_history = <<>>]

\* lines 144-161 with the call of line 158 indented into the if of line 151:
\* only a row that has a signal is marked
process_row_MarksInsideIf(self, row) ==
    IF row.signal # 0 /\ row.signal # NaN
    THEN update_portfolio_value(execute_trade(self, row.date, row.signal, row.close, row.confidence, row.position_size), row.date, row.close)
    ELSE self

\* lines 144-161 with the call of line 161 moved above the if of line 151: the
\* row is valued before its trade is executed
process_row_ValuesFirst(self, row) ==
    LET valued == update_portfolio_value(self, row.date, row.close)
    IN IF row.signal # 0 /\ row.signal # NaN
       THEN execute_trade(valued, row.date, row.signal, row.close, row.confidence, row.position_size)
       ELSE valued

\* lines 144-161: one iteration of the loop over df.iterrows()
process_row(self, row) ==
    LET traded == IF row.signal # 0 /\ row.signal # NaN
                  THEN execute_trade(self, row.date, row.signal, row.close, row.confidence, row.position_size)
                  ELSE self
    IN update_portfolio_value(traded, row.date, row.close)

\* lines 144-161: the loop over the first k rows of d
RECURSIVE run_rows(_, _, _)
run_rows(self, d, k) == IF k = 0 THEN self ELSE process_row(run_rows(self, d, k - 1), d[k])

\* trade.get(key, default) on a Trade Record
Get(trade, key, default) == IF key \in DOMAIN trade THEN trade[key] ELSE default

\* line 207 with total_cost > 0 where the code has total_cost < 0
winning_CostPositive(trade) == Get(trade, "total_revenue", 0) > 0 \/ Get(trade, "total_cost", 0) > 0

\* line 207: the test that counts a Trade Record as a winning trade
winning(trade) == Get(trade, "total_revenue", 0) > 0 \/ Get(trade, "total_cost", 0) < 0

\* lines 207-209: win_rate as the fraction num / den; the else branch gives 0
win_rate(log) ==
    LET winning_trades == Cardinality({t \in 1..Len(log) : winning(log[t])})
        total_trades == Cardinality({t \in 1..Len(log) : log[t].action \in {"BUY", "SELL"}})
    IN IF total_trades > 0 THEN [num |-> winning_trades, den |-> total_trades] ELSE [num |-> 0, den |-> 1]

\* a / b = c / d for b, d > 0, by the continued fractions of both sides
RECURSIVE RatEq(_, _, _, _)
RatEq(a, b, c, d) ==
    IF a \div b # c \div d THEN FALSE
    ELSE IF a % b = 0 \/ c % d = 0 THEN a % b = 0 /\ c % d = 0
    ELSE RatEq(b, a % b, d, c % d)

\* lines 185 and 198: volatility = std of the pct_change of total_value, times
\* sqrt(252).  The first return is NaN and is left out; std (ddof = 1) of fewer
\* than two returns is NaN, of equal returns 0, of any others positive.
volatility(history) ==
    IF Len(history) < 3 THEN "nan"
    ELSE IF \A j, k \in 2..Len(history) : RatEq(history[j].total_value, history[j - 1].total_value, history[k].total_value, history[k - 1].total_value) THEN "0"
    ELSE "positive"

\* line 199 with != where the code has >
sharpe_ratio_NotEqual(vol) == IF vol # "0" THEN "annual_return / volatility" ELSE "0"

\* line 199: annual_return / volatility if volatility > 0 else 0; a comparison
\* with NaN is false
sharpe_ratio(vol) == IF vol = "positive" THEN "annual_return / volatility" ELSE "0"

\* line 195: total_return = total_value / initial_cash - 1, as the fraction
\* num / den
total_return(self) == [num |-> self.total_value - self.initial_cash, den |-> self.initial_cash]

\* calculate_performance: lines 176-177 (no snapshot: the empty dict), and of the
\* report initial_cash, final_value, total_return, total_trades, win_rate,
\* volatility and sharpe_ratio
calculate_performance(self) ==
    IF self.portfolio_history = <<>>
    THEN [empty |-> TRUE, initial_cash |-> 0, final_value |-> 0, total_return |-> [num |-> 0, den |-> 1], total_trades |-> 0, win_rate |-> [num |-> 0, den |-> 1], volatility |-> "nan", sharpe_ratio |-> "0"]
    ELSE [empty |-> FALSE, initial_cash |-> self.initial_cash, final_value |-> self.total_value, total_return |-> total_return(self), total_trades |-> Len(self.trade_log), win_rate |-> win_rate(self.trade_log), volatility |-> volatility(self.portfolio_history), sharpe_ratio |-> sharpe_ratio(volatility(self.portfolio_history))]

-----------------------------------------------------------------------------
(* Actions of the backtester *)

\* backtester = Backtester(initial_cash, transaction_fee, slippage)
Construct(a) ==
    /\ pc = "new"
    /\ args' = a
    /\ backtester' = Backtester_init(cfg, a)
    /\ pc' = "idle"
    /\ UNCHANGED <<cfg, df, i, results, runs, prev>>
    /\ UNCHANGED <<wf_vars, ext_vars>>

\* run_backtest(df) is called with one of the frames: lines 133-141
run_backtest_begin(frames, maxruns) ==
    /\ pc \in {"idle", "done"}
    /\ runs < maxruns
    /\ backtester' = reset(backtester)
    /\ df' \in frames
    /\ i' = 0
    /\ pc' = "running"
    /\ prev' = IF pc = "done" THEN <<[df |-> df, trade_log |-> backtester.trade_log, portfolio_history |-> backtester.portfolio_history]>> ELSE prev
    /\ UNCHANGED <<cfg, args, results, runs>>
    /\ UNCHANGED <<wf_vars, ext_vars>>

\* The model's money units hold the worth of the portfolio at this price.
Representable(self, price) == self.cash \div MoneyScale + self.position * price <= MaxMoney

\* one iteration of the loop
run_backtest_row ==
    /\ pc = "running"
    /\ i < Len(df)
    /\ Representable(backtester, df[i + 1].close)
    /\ backtester' = process_row(backtester, df[i + 1])
    /\ i' = i + 1
    /\ UNCHANGED <<cfg, args, pc, df, results, runs, prev>>
    /\ UNCHANGED <<wf_vars, ext_vars>>

\* the loop is exhausted: lines 163-167
run_backtest_return ==
    /\ pc = "running"
    /\ i = Len(df)
    /\ results' = <<calculate_performance(backtester)>>
    /\ runs' = runs + 1
    /\ pc' = "done"
    /\ UNCHANGED <<cfg, args, backtester, df, i, prev>>
    /\ UNCHANGED <<wf_vars, ext_vars>>

-----------------------------------------------------------------------------
(* walk_forward_training (src/model.py).  The rows of df are the positions       *)
(* 0 .. len(df) - 1 and a window is the half-open range [lo, hi) of positions.   *)
(* prepare_data, train, save_model and predict belong to the predictor, which    *)
(* the scheduler treats as opaque: a call of them returns.                       *)

WFIdle == [n |-> 0, train_period |-> 0, test_period |-> 1]

\* Scenario C and Scenario D
ScenarioC == [n |-> 1400, train_period |-> 1000, test_period |-> 200]
ScenarioD == [n |-> 50, train_period |-> 1000, test_period |-> 200]
WFInputs == [n : 0..MaxLen, train_period : 0..MaxTrain, test_period : 1..MaxTest] \cup {ScenarioC, ScenarioD}

\* df.iloc[a:b] for 0 <= a on a frame of n rows: the slice stops at the last row
iloc(n, a, b) == [lo |-> Min(a, n), hi |-> Min(b, n)]
WindowLen(w) == IF w.hi > w.lo THEN w.hi - w.lo ELSE 0

\* line 241 with < where the code has <=
wf_continue_Strict(n, start, train_period, test_period) == start + train_period + test_period < n

\* line 241 without the test window
wf_continue_TrainOnly(n, start, train_period, test_period) == start + train_period <= n

\* line 241: the loop condition
wf_continue(n, start, train_period, test_period) == start + train_period + test_period <= n

\* line 246 with the slice ending one row later: the train window takes in the
\* first row of the test window
train_window_IntoTest == iloc(wf.n, start_idx, start_idx + wf.train_period + 1)

\* lines 243-247: the windows of the period that starts at start_idx
train_window == iloc(wf.n, start_idx, start_idx + wf.train_period)
test_window == iloc(wf.n, start_idx + wf.train_period, start_idx + wf.train_period + wf.test_period)

\* StockPredictor.__init__ (lines 22-26): no model yet.  A model is named by the
\* window of rows it was fitted on.
NoModel == [lo |-> 0, hi |-> 0]
StockPredictor_init == [model |-> NoModel]

\* StockPredictor.train, line 70: self.model is replaced by the newly fitted model
train(self, window) == [self EXCEPT !.model = window]

\* line 239: the local variable predictor refers to the one StockPredictor the
\* call makes
predictor == 1

\* lines 273-282: the result dict of a period.  start, train and test are the
\* start_idx and the windows the dict was built from; predictor is the reference
\* stored, predictions and actual are those of the test window.
period_result(start, train_w, test_w, ref) ==
    [start |-> start, train |-> train_w, test |-> test_w,
     train_period |-> <<train_w.lo, train_w.hi - 1>>, test_period |-> <<test_w.lo, test_w.hi - 1>>,
     mse |-> "float", mae |-> "float", rmse |-> "float",
     predictor |-> ref, predictions |-> test_w, actual |-> test_w]

\* walk_forward_training(df, train_period, test_period) is called: lines 235-239
walk_forward_training_call ==
    /\ wf_pc = "idle"
    /\ wf' \in WFInputs
    /\ start_idx' = 0
    /\ wf_results' = <<>>
    /\ trainer_calls' = 0
    /\ predictors' = <<StockPredictor_init>>
    /\ wf_pc' = "loop"
    /\ UNCHANGED <<bt_vars, ext_vars>>

\* lines 243-289: one period is trained, tested and recorded
walk_forward_training_period ==
    /\ wf_pc = "loop"
    /\ wf_continue(wf.n, start_idx, wf.train_period, wf.test_period)
    /\ WindowLen(train_window) > 0 /\ WindowLen(test_window) > 0
    /\ trainer_calls' = trainer_calls + 1
    /\ predictors' = [predictors EXCEPT ![predictor] = train(@, train_window)]
    /\ wf_results' = Append(wf_results, period_result(start_idx, train_window, test_window, predictor))
    /\ start_idx' = start_idx + wf.test_period
    /\ UNCHANGED <<wf, wf_pc>>
    /\ UNCHANGED <<bt_vars, ext_vars>>

\* lines 249-250: ['date'].iloc[0] of an empty window raises IndexError
walk_forward_training_raise ==
    /\ wf_pc = "loop"
    /\ wf_continue(wf.n, start_idx, wf.train_period, wf.test_period)
    /\ WindowLen(train_window) = 0 \/ WindowLen(test_window) = 0
    /\ wf_pc' = "raised"
    /\ UNCHANGED <<wf, start_idx, wf_results, trainer_calls, predictors>>
    /\ UNCHANGED <<bt_vars, ext_vars>>

\* line 291: the loop condition is false
walk_forward_training_return ==
    /\ wf_pc = "loop"
    /\ ~wf_continue(wf.n, start_idx, wf.train_period, wf.test_period)
    /\ wf_pc' = "returned"
    /\ UNCHANGED <<wf, start_idx, wf_results, trainer_calls, predictors>>
    /\ UNCHANGED <<bt_vars, ext_vars>>

-----------------------------------------------------------------------------
(* run_pipeline (src/main.py) with use_walk_forward=True.  load_stock_data and   *)
(* feature_engineering_pipeline supply processed_data; the steps after the       *)
(* training (signal generation, backtest, evaluation, report, save) are one step *)
(* that returns or raises.                                                       *)

\* line 66: the window lengths run_pipeline passes to walk_forward_training
PipelineTrainPeriod == 1000
PipelineTestPeriod == 200

\* len(processed_data): Scenario D's 50 rows and the multiples of 100 rows
PipelineLens == {50} \cup {100 * k : k \in 0..MaxHundreds}

\* what run_pipeline returns: None (line 150) or the results dict (line 144)
ReturnedNone == [value |-> "None"]
ReturnedResults(periods, strategy) == [value |-> "results", wf_summary |-> periods, strategy_data |-> strategy]

\* src/signal_generator.py lines 73, 135 and 139 as called from line 106 of
\* main.py: df.index[-len(predictions):] on the n rows of processed_data, as a
\* window of row positions.  The predictions are those of the window w.
strategy_rows(n, w) ==
    LET k == WindowLen(w)
    IN IF k = 0 \/ k > n THEN [lo |-> 0, hi |-> n] ELSE [lo |-> n - k, hi |-> n]

\* lines 86-107: the strategy table made from the last period's predictions: the
\* rows that were given a signal and the rows the predictions were made for
strategy_data(n, last_result) == [signal_rows |-> strategy_rows(n, last_result.predictions), predicted_rows |-> last_result.predictions]

\* lines 42-66 and 235-239: run_pipeline calls walk_forward_training(processed_data, 1000, 200)
run_pipeline_call ==
    /\ pl_pc = "idle"
    /\ wf_pc = "idle"
    /\ \E n \in PipelineLens : wf' = [n |-> n, train_period |-> PipelineTrainPeriod, test_period |-> PipelineTestPeriod]
    /\ start_idx' = 0
    /\ wf_results' = <<>>
    /\ trainer_calls' = 0
    /\ predictors' = <<StockPredictor_init>>
    /\ wf_pc' = "loop"
    /\ pl_pc' = "training"
    /\ UNCHANGED pl_results
    /\ UNCHANGED not_pl_vars

\* lines 67-88: the summary loop, then last_result = wf_results[-1] of a non-empty list
run_pipeline_last_result ==
    /\ pl_pc = "training"
    /\ wf_pc = "returned"
    /\ wf_results # <<>>
    /\ pl_pc' = "trained"
    /\ UNCHANGED pl_results
    /\ UNCHANGED <<wf_vars, not_pl_vars>>

\* lines 100-144: the remaining steps complete and the results dict is returned
run_pipeline_return ==
    /\ pl_pc = "trained"
    /\ pl_results' = <<ReturnedResults(Len(wf_results), strategy_data(wf.n, wf_results[Len(wf_results)]))>>
    /\ pl_pc' = "returned"
    /\ UNCHANGED <<wf_vars, not_pl_vars>>

\* lines 146-150: an exception inside the try block is printed and None returned.
\* wf_results[-1] (line 86) raises IndexError on an empty list; a step after the
\* training may raise.
run_pipeline_except ==
    /\ \/ pl_pc = "training" /\ wf_pc = "returned" /\ wf_results = <<>>
       \/ pl_pc = "trained"
    /\ pl_results' = <<ReturnedNone>>
    /\ pl_pc' = "returned"
    /\ UNCHANGED <<wf_vars, not_pl_vars>>

\* lines 170-175: main reports success exactly when run_pipeline's result is truthy
main_reports_success == pl_results # <<>> /\ pl_results[1] # ReturnedNone

-----------------------------------------------------------------------------
(* BatchRunner (src/scripts/batch_run.py).  A unit is a position of the stock    *)
(* list.  DataManager, FeatureEngineer, StockModel and the batch Backtester are  *)
(* the unit's collaborators: what they do for a unit depends on that unit's data *)
(* alone, and is one of the four outcomes process_single_stock distinguishes.    *)

\* get_stock_data gives None or fewer than 400 rows (line 68); clean_data gives
\* None (line 81); a step raises (line 117); every step succeeds (line 106)
UnitKinds == {"insufficient", "unclean", "raises", "ok"}

\* the calls explored: every list of 1..MaxUnits units on 1..MaxWorkers threads
StockLists == UNION {[1..n -> UnitKinds] : n \in 1..MaxUnits}
BatchCalls == StockLists \X (1..MaxWorkers)

\* lines 106-115: the success result of a unit, made from the unit's own data
success_result(u) == [code |-> u, status |-> "success", backtest_result |-> u]

\* process_single_stock without the try/except of lines 65 and 117: the exception
\* leaves the function and is stored in the future
process_single_stock_Propagates(stock_list, u) ==
    CASE stock_list[u] = "insufficient" -> [code |-> u, status |-> "failed", reason |-> "insufficient data"]
      [] stock_list[u] = "unclean" -> [code |-> u, status |-> "failed", reason |-> "feature calculation failed"]
      [] stock_list[u] = "raises" -> [code |-> u, status |-> "raised", reason |-> "str(e)"]
      [] OTHER -> success_result(u)

\* process_single_stock: lines 53-123
process_single_stock(stock_list, u) ==
    CASE stock_list[u] = "insufficient" -> [code |-> u, status |-> "failed", reason |-> "insufficient data"]
      [] stock_list[u] = "unclean" -> [code |-> u, status |-> "failed", reason |-> "feature calculation failed"]
      [] stock_list[u] = "raises" -> [code |-> u, status |-> "error", reason |-> "str(e)"]
      [] OTHER -> success_result(u)

Submitted == 1..Len(futures)
Pending == {u \in Submitted : futures[u] = "pending"}
Running == {u \in Submitted : futures[u] = "running"}
Finished == {u \in Submitted : futures[u] = "finished"}
Yielded == {yielded[k] : k \in 1..Len(yielded)}

\* iterating the futures in submission order, each taken once it has finished
yieldable_InSubmissionOrder == IF Len(yielded) < Len(futures) /\ futures[Len(yielded) + 1] = "finished" THEN {Len(yielded) + 1} ELSE {}

\* line 150, as_completed(futures): the futures that were finished when the
\* iteration began are yielded first, in the order of a set; after them each
\* future is yielded in the order of finishing
yieldable ==
    IF ac_ready # {}
    THEN ac_ready
    ELSE LET waiting == {k \in 1..Len(finished_order) : finished_order[k] \notin Yielded}
         IN IF waiting = {} THEN {} ELSE {finished_order[CHOOSE k \in waiting : \A j \in waiting : k <= j]}

\* lines 135-144: run(stock_list) is called
BatchRunner_run_call ==
    /\ batch_pc = "idle"
    /\ \E call \in BatchCalls : stocks' = call[1] /\ workers' = call[2]
    /\ batch_results' = <<>>
    /\ batch_pc' = "submit"
    /\ UNCHANGED <<futures, finished_order, ac_ready, yielded, lines, summary>>
    /\ UNCHANGED not_batch_vars

\* line 148: executor.submit of the next unit of the list
BatchRunner_run_submit ==
    /\ batch_pc = "submit"
    /\ Len(futures) < Len(stocks)
    /\ futures' = Append(futures, "pending")
    /\ UNCHANGED <<stocks, workers, finished_order, ac_ready, yielded, batch_results, lines, summary, batch_pc>>
    /\ UNCHANGED not_batch_vars

\* line 150: every unit is submitted and the iteration over as_completed begins
BatchRunner_run_as_completed ==
    /\ batch_pc = "submit"
    /\ Len(futures) = Len(stocks)
    /\ ac_ready' = Finished
    /\ batch_pc' = "collect"
    /\ UNCHANGED <<stocks, workers, futures, finished_order, yielded, batch_results, lines, summary>>
    /\ UNCHANGED not_batch_vars

\* a free worker thread takes the oldest pending unit from the executor's queue
worker_start ==
    /\ Pending # {}
    /\ Cardinality(Running) < workers
    /\ LET u == CHOOSE p \in Pending : \A q \in Pending : p <= q
       IN futures' = [futures EXCEPT ![u] = "running"]
    /\ UNCHANGED <<stocks, workers, finished_order, ac_ready, yielded, batch_results, lines, summary, batch_pc>>
    /\ UNCHANGED not_batch_vars

\* a worker thread returns from process_single_stock and its future finishes
worker_finish ==
    /\ \E u \in Running :
        /\ futures' = [futures EXCEPT ![u] = "finished"]
        /\ finished_order' = Append(finished_order, u)
    /\ UNCHANGED <<stocks, workers, ac_ready, yielded, batch_results, lines, summary, batch_pc>>
    /\ UNCHANGED not_batch_vars

\* lines 150-172: one iteration of the collecting loop.  future.result() gives the
\* dict process_single_stock returned, or raises what left it.
BatchRunner_run_collect ==
    /\ batch_pc = "collect"
    /\ \E u \in yieldable :
        LET result == process_single_stock(stocks, u)
            completed == Len(yielded) + 1
        IN /\ yielded' = Append(yielded, u)
           /\ ac_ready' = ac_ready \ {u}
           /\ IF result.status = "raised"
              THEN /\ batch_results' = batch_results
                   /\ lines' = Append(lines, [completed |-> completed, code |-> u, status |-> "exception"])
              ELSE /\ batch_results' = Append(batch_results, result)
                   /\ lines' = Append(lines, [completed |-> completed, code |-> u, status |-> result.status])
    /\ UNCHANGED <<stocks, workers, futures, finished_order, summary, batch_pc>>
    /\ UNCHANGED not_batch_vars

\* print_summary, lines 181-190: the counts it prints
print_summary(self_results) ==
    LET total == Len(self_results)
        success == Cardinality({k \in 1..total : self_results[k].status = "success"})
    IN [total |-> total, success |-> success, failed |-> total - success]

\* lines 173-177: as_completed is exhausted, the pool is shut down, the summary
\* is printed and the success results are returned
BatchRunner_run_return ==
    /\ batch_pc = "collect"
    /\ Len(yielded) = Len(stocks)
    /\ summary' = <<print_summary(batch_results)>>
    /\ batch_pc' = "returned"
    /\ UNCHANGED <<stocks, workers, futures, finished_order, ac_ready, yielded, batch_results, lines>>
    /\ UNCHANGED not_batch_vars

-----------------------------------------------------------------------------
(* Signal generation (src/signal_generator.py).  Predictions, thresholds,        *)
(* confidences and position sizes are whole numbers of 1/SignalScale; the        *)
(* predictions and thresholds explored make every quotient below exact.  A frame *)
(* is given by its number of rows; a row the assignment of line 73 does not      *)
(* reach holds NaN in the new column.                                            *)

SignalScale == 10 ^ 3

\* the defaults of lines 31, 32 and 76: 0.02, -0.02 and 0.2
DefaultBuyThreshold == 20
DefaultSellThreshold == -20
DefaultMaxPosition == 200

Abs(x) == IF x < 0 THEN -x ELSE x

\* np.nan and predicted returns from -0.2 to 0.2, the thresholds among them
Predictions == {NaN, -200, -60, -40, -24, -20, -12, 0, 12, 20, 24, 40, 60, 200}
BuyThresholds == {10, DefaultBuyThreshold, 50}
SellThresholds == {-10, DefaultSellThreshold, -50}
MaxPositions == {DefaultMaxPosition, 500, 1000}

\* lines 46-56 with line 52 dividing pred, not abs(pred)
signal_with_confidence_NoAbs(pred, buy_threshold, sell_threshold) ==
    IF pred # NaN /\ pred > buy_threshold
    THEN <<1, Min((pred * SignalScale) \div (buy_threshold * 2), SignalScale)>>
    ELSE IF pred # NaN /\ pred < sell_threshold
    THEN <<-1, Min(-((Abs(pred) * SignalScale) \div (Abs(sell_threshold) * 2)), SignalScale)>>
    ELSE <<0, 0>>

\* lines 46-56: the (signal, confidence) of one prediction; a comparison with NaN
\* is false
signal_with_confidence(pred, buy_threshold, sell_threshold) ==
    IF pred # NaN /\ pred > buy_threshold
    THEN <<1, Min((pred * SignalScale) \div (buy_threshold * 2), SignalScale)>>
    ELSE IF pred # NaN /\ pred < sell_threshold
    THEN <<-1, Min((Abs(pred) * SignalScale) \div (Abs(sell_threshold) * 2), SignalScale)>>
    ELSE <<0, 0>>

\* generate_signals_with_confidence: lines 44-58
generate_signals_with_confidence(predictions, buy_threshold, sell_threshold) == [k \in 1..Len(predictions) |-> signal_with_confidence(predictions[k], buy_threshold, sell_threshold)]

\* position_sizing: line 87
position_sizing(confidence, max_position) == (confidence * max_position) \div SignalScale

\* df.loc[df.index[-len(values):], column] = values on a frame of n >= 1 rows.
\* index[-k:] is the last k labels, and the whole index when k = 0 or k > n; the
\* assignment raises ValueError when the labels and the values differ in number.
ValueError == [raised |-> TRUE, value |-> <<>>]
Returned(value) == [raised |-> FALSE, value |-> value]
loc_last(n, values) ==
    LET k == Len(values)
        first == IF k = 0 \/ k > n THEN 1 ELSE n - k + 1
    IN IF n - first + 1 # k
       THEN ValueError
       ELSE Returned([r \in 1..n |-> IF r >= first THEN values[r - first + 1] ELSE NaN])

\* apply_signal_rules: lines 71-74
apply_signal_rules(n, signals) == loc_last(n, signals)

\* generate_trading_strategy: lines 122-149, the signal, confidence and
\* position_size columns of the frame it returns
generate_trading_strategy(n, predictions) ==
    LET signals_with_confidence == generate_signals_with_confidence(predictions, DefaultBuyThreshold, DefaultSellThreshold)
        signals == [k \in 1..Len(predictions) |-> signals_with_confidence[k][1]]
        confidences == [k \in 1..Len(predictions) |-> signals_with_confidence[k][2]]
        position_sizes == [k \in 1..Len(predictions) |-> position_sizing(confidences[k], DefaultMaxPosition)]
        signal == apply_signal_rules(n, signals)
        confidence == loc_last(n, confidences)
        position_size == loc_last(n, position_sizes)
    IN IF signal.raised
       THEN ValueError
       ELSE Returned([r \in 1..n |-> [signal |-> signal.value[r], confidence |-> confidence.value[r], position_size |-> position_size.value[r]]])

\* generate_trading_strategy(df, predictions) is called
generate_trading_strategy_call ==
    /\ sig_pc = "idle"
    /\ \E n \in 1..MaxSignalRows, predictions \in SeqsUpTo(Predictions, MaxPredictions) :
        sig_in' = [fn |-> "generate_trading_strategy", rows |-> n, predictions |-> predictions]
    /\ sig_pc' = "called"
    /\ UNCHANGED sig_out
    /\ UNCHANGED not_sig_vars

\* line 149: the frame with its strategy columns is returned
generate_trading_strategy_return ==
    /\ sig_pc = "called"
    /\ sig_in.fn = "generate_trading_strategy"
    /\ ~generate_trading_strategy(sig_in.rows, sig_in.predictions).raised
    /\ sig_out' = <<generate_trading_strategy(sig_in.rows, sig_in.predictions).value>>
    /\ sig_pc' = "returned"
    /\ UNCHANGED sig_in
    /\ UNCHANGED not_sig_vars

\* line 73 raises and the exception leaves generate_trading_strategy
generate_trading_strategy_raise ==
    /\ sig_pc = "called"
    /\ sig_in.fn = "generate_trading_strategy"
    /\ generate_trading_strategy(sig_in.rows, sig_in.predictions).raised
    /\ sig_pc' = "raised"
    /\ UNCHANGED <<sig_in, sig_out>>
    /\ UNCHANGED not_sig_vars

\* The Signal Translator on one prediction with thresholds and a position cap of
\* the caller's: generate_signals_with_confidence, then position_sizing
signal_translator_call ==
    /\ sig_pc = "idle"
    /\ \E p \in Predictions, b \in BuyThresholds, s \in SellThresholds, m \in MaxPositions :
        sig_in' = [fn |-> "generate_signals_with_confidence", predictions |-> <<p>>, buy_threshold |-> b, sell_threshold |-> s, max_position |-> m]
    /\ sig_pc' = "called"
    /\ UNCHANGED sig_out
    /\ UNCHANGED not_sig_vars

signal_translator_return ==
    /\ sig_pc = "called"
    /\ sig_in.fn = "generate_signals_with_confidence"
    /\ LET out == generate_signals_with_confidence(sig_in.predictions, sig_in.buy_threshold, sig_in.sell_threshold)
       IN sig_out' = <<[k \in 1..Len(out) |-> [signal |-> out[k][1], confidence |-> out[k][2], position_size |-> position_sizing(out[k][2], sig_in.max_position)]]>>
    /\ sig_pc' = "returned"
    /\ UNCHANGED sig_in
    /\ UNCHANGED not_sig_vars

-----------------------------------------------------------------------------
(* The batch Backtester (src/src/backtest.py) and the steps of                   *)
(* process_single_stock that feed it (src/scripts/batch_run.py lines 88-104).    *)
(* A row has a close price, the prediction pred and the target; returns are      *)
(* whole numbers of 1/RateScale, which the prices explored make exact, and       *)
(* the fee rate is in 1/RateScale as well.  NaN stands for np.nan in a column.   *)

\* self.transaction_fee of the instance (line 35), in 1/RateScale
BatchFees == {0, 1, 2}

BatchPrices == {100, 125}
BatchRow == [close : BatchPrices, pred : {-1, 0, 1}, target : {-1, 1}]
BatchFrames == SeqsUpTo(BatchRow, MaxBatchRows)

\* clean_data(min_rows=400), split_data(test_size=100), the 100 of line 99 of
\* batch_run.py and the 100 of lines 112-113 of backtest.py
MinCleanRows == 400
SplitTestSize == 100
BatchTestRows == 100
AccuracyFrom == 100

\* the cleaned frames explored: MinCleanRows rows or one more, alternating
\* between two rows
CleanFrame(n, a, b) == [k \in 1..n |-> IF k % 2 = 1 THEN a ELSE b]

\* lines 89-101 of batch_run.py: X_test is the last SplitTestSize rows of
\* df_clean, preds has one prediction per row of X_test (the model's prediction
\* for a row is the row's pred), and df_test is the last BatchTestRows rows of
\* df_clean with preds as its pred column
df_test(df_clean) ==
    LET train_size == Len(df_clean) - SplitTestSize
        preds == [k \in 1..(Len(df_clean) - train_size) |-> df_clean[train_size + k].pred]
        test_start == Len(df_clean) - BatchTestRows
    IN [k \in 1..(Len(df_clean) - test_start) |-> [df_clean[test_start + k] EXCEPT !.pred = preds[k]]]

\* generate_signals: lines 51-53
batch_signal(pred) == IF pred > 0 THEN 1 ELSE IF pred < 0 THEN -1 ELSE 0

\* line 74: pct_change of the price column; the first row has none
daily_ret(d, t) == IF t = 1 THEN NaN ELSE ((d[t].close - d[t - 1].close) * RateScale) \div d[t - 1].close

\* calculate_returns with line 77 multiplying by the signal of the row itself
calculate_returns_NoShift(self, d) ==
    [t \in 1..Len(d) |->
        LET signal == batch_signal(d[t].pred)
            strat_ret == IF t = 1 THEN NaN ELSE signal * daily_ret(d, t)
            signal_change == IF t = 1 THEN 0 ELSE signal - batch_signal(d[t - 1].pred)
        IN [close |-> d[t].close, pred |-> d[t].pred, target |-> d[t].target, signal |-> signal,
            daily_ret |-> daily_ret(d, t),
            strat_ret |-> strat_ret,
            strat_ret_net |-> IF strat_ret = NaN THEN NaN ELSE strat_ret - Abs(signal_change) * self.transaction_fee]]

\* generate_signals and calculate_returns, lines 49-55 and 71-84: the frame with
\* its signal, daily_ret, strat_ret and strat_ret_net columns.  shift(1) and
\* diff() have no value on the first row; fillna(0) makes the change there 0.
calculate_returns(self, d) ==
    [t \in 1..Len(d) |->
        LET signal == batch_signal(d[t].pred)
            shifted == IF t = 1 THEN NaN ELSE batch_signal(d[t - 1].pred)
            strat_ret == IF shifted = NaN THEN NaN ELSE shifted * daily_ret(d, t)
            signal_change == IF t = 1 THEN 0 ELSE signal - shifted
        IN [close |-> d[t].close, pred |-> d[t].pred, target |-> d[t].target, signal |-> signal,
            daily_ret |-> daily_ret(d, t),
            strat_ret |-> strat_ret,
            strat_ret_net |-> IF strat_ret = NaN THEN NaN ELSE strat_ret - Abs(signal_change) * self.transaction_fee]]

\* Series.sum(): the sum of the values that are not NaN, over the first n rows
RECURSIVE column_sum(_, _, _)
column_sum(data, column, n) == IF n = 0 THEN 0 ELSE column_sum(data, column, n - 1) + (IF data[n][column] = NaN THEN 0 ELSE data[n][column])

\* lines 112-116: the rows from position AccuracyFrom on (iloc[100:]), and among
\* them the share of rows with (target > 0) == (pred > 0); 0 when there is no
\* such row
accuracy(d) ==
    LET counted == {t \in 1..Len(d) : t > AccuracyFrom}
        equal == {t \in counted : (d[t].target > 0) = (d[t].pred > 0)}
    IN IF counted # {} THEN [num |-> Cardinality(equal), den |-> Cardinality(counted)] ELSE [num |-> 0, den |-> 1]

\* line 119: (signal.diff() != 0).sum(); the first row's diff is NaN and counts
trades(data) == Cardinality({t \in 1..Len(data) : t = 1 \/ data[t].signal # data[t - 1].signal})

\* Backtester.run_backtest: lines 100-128
batch_run_backtest(self, d) ==
    LET data == calculate_returns(self, d)
    IN [buyhold_return |-> column_sum(data, "daily_ret", Len(data)) * 100,
        strategy_return |-> column_sum(data, "strat_ret", Len(data)) * 100,
        strategy_return_net |-> column_sum(data, "strat_ret_net", Len(data)) * 100,
        accuracy |-> accuracy(d),
        trades |-> trades(data),
        data |-> data]

\* quick_backtest and the __main__ of backtest.py: a Backtester is made and
\* run_backtest(df) is called on a frame
batch_run_backtest_call ==
    /\ bb_pc = "idle"
    /\ bb_self' \in [transaction_fee : BatchFees]
    /\ \E d \in BatchFrames : bb_in' = [caller |-> "quick_backtest", df |-> d]
    /\ bb_pc' = "called"
    /\ UNCHANGED bb_out
    /\ UNCHANGED not_bb_vars

\* process_single_stock, lines 79-104: clean_data gave df_clean, the model was
\* trained and has predicted, and bt.run_backtest(df_test) is called
process_single_stock_run_backtest ==
    /\ bb_pc = "idle"
    /\ bb_self' \in [transaction_fee : BatchFees]
    /\ \E n \in {MinCleanRows, MinCleanRows + 1}, a \in BatchRow, b \in BatchRow :
        bb_in' = [caller |-> "process_single_stock", df |-> df_test(CleanFrame(n, a, b))]
    /\ bb_pc' = "called"
    /\ UNCHANGED bb_out
    /\ UNCHANGED not_bb_vars

\* run_backtest returns its result dict
batch_run_backtest_return ==
    /\ bb_pc = "called"
    /\ bb_out' = <<batch_run_backtest(bb_self, bb_in.df)>>
    /\ bb_pc' = "returned"
    /\ UNCHANGED <<bb_self, bb_in>>
    /\ UNCHANGED not_bb_vars

-----------------------------------------------------------------------------
(* DataManager (src/src/data_manager.py).  The stock's directory holds today's   *)
(* cache file, an older one, both or none.  MAX_RETRIES and DATA_CACHE_DAYS are  *)
(* settings the module imports: the call is explored for every MAX_RETRIES up to *)
(* MaxRetriesLimit and for today's file being within DATA_CACHE_DAYS or not.     *)
(* An attempt is one call of ak.stock_zh_a_hist, which returns or raises.        *)

CacheFiles == {"today", "older"}

\* line 66: the least number of rows of an accepted download
MinDownloadRows == 100

\* what one call of ak.stock_zh_a_hist does: it raises, or returns None, or
\* returns a frame of so many rows
Attempts == {[kind |-> "raises", rows |-> 0], [kind |-> "None", rows |-> 0], [kind |-> "df", rows |-> MinDownloadRows - 1], [kind |-> "df", rows |-> MinDownloadRows]}

\* _is_cache_valid, lines 43-53: the file exists and its age is below DATA_CACHE_DAYS
is_cache_valid(stock_dir, fresh) == "today" \in stock_dir /\ fresh

\* line 66: df is not None and len(df) >= 100
accepted(attempt) == attempt.kind = "df" /\ attempt.rows >= MinDownloadRows

\* line 57 with one attempt more than range(MAX_RETRIES) gives
retry_OneMore(made, max_retries) == made <= max_retries

\* line 57: for retry in range(MAX_RETRIES) has another iteration
retry(made, max_retries) == made < max_retries

\* what get_stock_data returns: a frame and where it came from, or None
Frame(origin, file) == [available |-> TRUE, origin |-> origin, file |-> file]
NoFrame == [available |-> FALSE, origin |-> "None", file |-> "None"]

\* get_stock_data(stock_code, force_update) is called: lines 83-86
get_stock_data_call ==
    /\ dm_pc = "idle"
    /\ \E force_update \in BOOLEAN, max_retries \in 0..MaxRetriesLimit, stock_dir \in SUBSET CacheFiles, fresh \in BOOLEAN :
        /\ dm_in' = [force_update |-> force_update, MAX_RETRIES |-> max_retries, files |-> stock_dir, fresh |-> fresh]
        /\ files' = stock_dir
    /\ attempt_log' = <<>>
    /\ dm_pc' = "called"
    /\ UNCHANGED dm_out
    /\ UNCHANGED not_dm_vars

\* lines 89-91: today's cache is valid and no update is forced: it is read and returned
get_stock_data_cache ==
    /\ dm_pc = "called"
    /\ ~dm_in.force_update /\ is_cache_valid(files, dm_in.fresh)
    /\ dm_out' = <<Frame("cache", "today")>>
    /\ dm_pc' = "returned"
    /\ UNCHANGED <<dm_in, files, attempt_log>>
    /\ UNCHANGED not_dm_vars

\* line 94: otherwise _download_stock is called
download_stock_call ==
    /\ dm_pc = "called"
    /\ ~(~dm_in.force_update /\ is_cache_valid(files, dm_in.fresh))
    /\ dm_pc' = "download"
    /\ UNCHANGED <<dm_in, files, attempt_log, dm_out>>
    /\ UNCHANGED not_dm_vars

\* lines 57-69: one iteration of the retry loop; an accepted frame is returned
\* at once (line 67), anything else leads to the next iteration
download_stock_attempt ==
    /\ dm_pc = "download"
    /\ retry(Len(attempt_log), dm_in.MAX_RETRIES)
    /\ \E attempt \in Attempts :
        /\ attempt_log' = Append(attempt_log, attempt)
        /\ dm_pc' = IF accepted(attempt) THEN "downloaded" ELSE "download"
    /\ UNCHANGED <<dm_in, files, dm_out>>
    /\ UNCHANGED not_dm_vars

\* line 70: the loop is exhausted and _download_stock returns None
download_stock_none ==
    /\ dm_pc = "download"
    /\ ~retry(Len(attempt_log), dm_in.MAX_RETRIES)
    /\ dm_pc' = "failed"
    /\ UNCHANGED <<dm_in, files, attempt_log, dm_out>>
    /\ UNCHANGED not_dm_vars

\* lines 95-98: the downloaded frame is written to today's cache file and returned
get_stock_data_downloaded ==
    /\ dm_pc = "downloaded"
    /\ files' = files \cup {"today"}
    /\ dm_out' = <<Frame("download", "today")>>
    /\ dm_pc' = "returned"
    /\ UNCHANGED <<dm_in, attempt_log>>
    /\ UNCHANGED not_dm_vars

\* lines 101-105: no download; old_files[0], the first file os.listdir names
\* (in no particular order), is read and returned
get_stock_data_old_cache ==
    /\ dm_pc = "failed"
    /\ files # {}
    /\ \E old_file \in files : dm_out' = <<Frame("old_cache", old_file)>>
    /\ dm_pc' = "returned"
    /\ UNCHANGED <<dm_in, files, attempt_log>>
    /\ UNCHANGED not_dm_vars

\* line 107: no download and no file
get_stock_data_none ==
    /\ dm_pc = "failed"
    /\ files = {}
    /\ dm_out' = <<NoFrame>>
    /\ dm_pc' = "returned"
    /\ UNCHANGED <<dm_in, files, attempt_log>>
    /\ UNCHANGED not_dm_vars

Init ==
    /\ cfg \in Configs
    /\ args = NoArgs
    /\ backtester = NoInstance
    /\ pc = "new"
    /\ df = <<>>
    /\ i = 0
    /\ results = <<>>
    /\ runs = 0
    /\ prev = <<>>
    /\ wf = WFIdle
    /\ start_idx = 0
    /\ wf_results = <<>>
    /\ trainer_calls = 0
    /\ predictors = <<>>
    /\ wf_pc = "idle"
    /\ pl_pc = "idle"
    /\ pl_results = <<>>
    /\ stocks = <<>>
    /\ workers = 1
    /\ futures = <<>>
    /\ finished_order = <<>>
    /\ ac_ready = {}
    /\ yielded = <<>>
    /\ batch_results = <<>>
    /\ lines = <<>>
    /\ summary = <<>>
    /\ batch_pc = "idle"
    /\ sig_pc = "idle"
    /\ sig_in = <<>>
    /\ sig_out = <<>>
    /\ bb_pc = "idle"
    /\ bb_self = [transaction_fee |-> 0]
    /\ bb_in = <<>>
    /\ bb_out = <<>>
    /\ dm_pc = "idle"
    /\ dm_in = [force_update |-> FALSE, MAX_RETRIES |-> 0, files |-> {}, fresh |-> FALSE]
    /\ files = {}
    /\ attempt_log = <<>>
    /\ dm_out = <<>>

\* One Backtester, one run_backtest call on it
Next ==
    \/ \E a \in CtorArgs : Construct(a)
    \/ run_backtest_begin(DataFrames, 1)
    \/ run_backtest_row
    \/ run_backtest_return

Spec == Init /\ [][Next]_vars

\* One Backtester() reused for up to MaxRuns run_backtest calls
NextReplay ==
    \/ Construct(NoArgs)
    \/ run_backtest_begin(ReplayFrames, MaxRuns)
    \/ run_backtest_row
    \/ run_backtest_return

SpecReplay == Init /\ [][NextReplay]_vars

\* One walk_forward_training call.  The call is sequential code: a step that can
\* be taken is taken.
NextWalkForward ==
    \/ walk_forward_training_call
    \/ walk_forward_training_period
    \/ walk_forward_training_raise
    \/ walk_forward_training_return

SpecWalkForward == Init /\ [][NextWalkForward]_vars /\ WF_vars(NextWalkForward)

\* One run_pipeline(use_walk_forward=True) call.  With the window lengths of line
\* 66 no window of a continuing loop is empty, so lines 249-250 do not raise.
NextPipeline ==
    \/ run_pipeline_call
    \/ walk_forward_training_period
    \/ walk_forward_training_return
    \/ run_pipeline_last_result
    \/ run_pipeline_return
    \/ run_pipeline_except

SpecPipeline == Init /\ [][NextPipeline]_vars

\* One BatchRunner.run call: the collecting thread and the worker threads of the
\* pool, in every interleaving
NextBatch ==
    \/ BatchRunner_run_call
    \/ BatchRunner_run_submit
    \/ BatchRunner_run_as_completed
    \/ worker_start
    \/ worker_finish
    \/ BatchRunner_run_collect
    \/ BatchRunner_run_return

SpecBatch == Init /\ [][NextBatch]_vars

\* One call of the signal generation
NextSignals ==
    \/ generate_trading_strategy_call
    \/ generate_trading_strategy_return
    \/ generate_trading_strategy_raise
    \/ signal_translator_call
    \/ signal_translator_return

SpecSignals == Init /\ [][NextSignals]_vars

\* One run_backtest call on a batch Backtester
NextBatchBacktest ==
    \/ batch_run_backtest_call
    \/ process_single_stock_run_backtest
    \/ batch_run_backtest_return

SpecBatchBacktest == Init /\ [][NextBatchBacktest]_vars

\* One get_stock_data call.  The call is sequential code and every download
\* attempt returns or raises: a step that can be taken is taken.
NextDataManager ==
    \/ get_stock_data_call
    \/ get_stock_data_cache
    \/ download_stock_call
    \/ download_stock_attempt
    \/ download_stock_none
    \/ get_stock_data_downloaded
    \/ get_stock_data_old_cache
    \/ get_stock_data_none

SpecDataManager == Init /\ [][NextDataManager]_vars /\ WF_vars(NextDataManager)

-----------------------------------------------------------------------------
(* Properties of the backtester *)

Started == pc \in {"running", "done"}
trade_log == backtester.trade_log
portfolio_history == backtester.portfolio_history

\* the Trade Records made for row k of df (dates are distinct within a frame)
TradesOfRow(k) == {t \in 1..Len(trade_log) : trade_log[t].date = df[k].date}
\* cash and position before row k was processed
CashBefore(k) == IF k = 1 THEN backtester.initial_cash ELSE portfolio_history[k - 1].cash
PositionBefore(k) == IF k = 1 THEN 0 ELSE portfolio_history[k - 1].position

\* C1: cash is never negative, in the Backtester and in the cash_after field of
\* every Trade Record, whatever execute_trade calls were made.
C1_CashNeverNegative ==
    /\ backtester.cash >= 0
    /\ \A t \in 1..Len(trade_log) : trade_log[t].cash_after >= 0

\* a BUY that the solvency pre-check refused (cash 100000, price 100.1, 999 shares
\* plus fee), followed by a BUY and a SELL that were filled with fee and slippage
C1_Witness ==
    /\ pc = "done"
    /\ Len(df) = 3
    /\ df[1].signal = 1 /\ TradesOfRow(1) = {}
    /\ backtester.cash > 0
    /\ backtester.transaction_fee > 0 /\ backtester.slippage > 0
    /\ Len(trade_log) = 2
    /\ trade_log[1].action = "BUY" /\ trade_log[2].action = "SELL"

\* C2: the position of every snapshot is >= 0: nothing is sold that is not held.
C2_PositionNeverNegative ==
    /\ backtester.position >= 0
    /\ \A k \in 1..Len(portfolio_history) : portfolio_history[k].position >= 0

\* shares were bought and then sold in part and in full
C2_Witness ==
    /\ pc = "done"
    /\ Len(trade_log) = 3
    /\ trade_log[1].action = "BUY" /\ trade_log[2].action = "SELL" /\ trade_log[3].action = "SELL"
    /\ trade_log[2].position_after > 0
    /\ trade_log[3].position_after = 0

\* C3: every snapshot has position_value = position * price and total_value =
\* cash + position * price, with the row's own date and unadjusted close price,
\* and the newest snapshot holds the cash and position the row's trade left.
C3_SnapshotValuation ==
    Started =>
        /\ Len(portfolio_history) = i
        /\ \A k \in 1..i :
            LET h == portfolio_history[k]
            IN /\ h.date = df[k].date
               /\ h.price = df[k].close
               /\ h.position_value = h.position * df[k].close * MoneyScale
               /\ h.total_value = h.cash + h.position * df[k].close * MoneyScale
        /\ i > 0 =>
            /\ portfolio_history[i].cash = backtester.cash
            /\ portfolio_history[i].position = backtester.position
            /\ backtester.total_value = portfolio_history[i].total_value

\* a row that bought at a fill price above the mark price, then a row marked at
\* another price
C3_Witness ==
    /\ Started
    /\ i = 2
    /\ backtester.slippage > 0
    /\ TradesOfRow(1) # {}
    /\ portfolio_history[1].position > 0
    /\ portfolio_history[2].position > 0
    /\ df[2].close # df[1].close

\* C4 (Scenario A as claimed): Backtester(100000, 0, 0), one BUY at 100 with
\* confidence 1 and position_size 0.1, leaves cash 90000 and position 100 and a
\* Trade Record of 100 shares at price 100 with fee 0.
C4_ScenarioA ==
    (/\ Started
     /\ i = 1
     /\ args = ScenarioArgs
     /\ df[1].signal = 1 /\ df[1].close = 100 /\ df[1].confidence = 10 /\ df[1].position_size = 1)
    => /\ backtester.cash = 90000 * MoneyScale
       /\ backtester.position = 100
       /\ Len(trade_log) = 1
       /\ trade_log[1].price = 100 * MoneyScale
       /\ trade_log[1].quantity = 100
       /\ trade_log[1].fee = 0

\* Row k was a filled BUY and row k + 1 a SELL at the same price with confidence 1
\* and position_size 1.0, while fee rate and slippage are both 0.
RoundTrip(k) ==
    /\ Started
    /\ k + 1 <= i
    /\ backtester.transaction_fee = 0 /\ backtester.slippage = 0
    /\ df[k].signal = 1 /\ TradesOfRow(k) # {}
    /\ df[k + 1].signal = -1 /\ df[k + 1].confidence = 10 /\ df[k + 1].position_size = 10
    /\ df[k + 1].close = df[k].close

\* The SELL of row k + 1 sold what the BUY of row k bought and restored cash and
\* position to what they were before row k.
Restored(k) ==
    /\ \E b \in TradesOfRow(k), s \in TradesOfRow(k + 1) : trade_log[s].quantity = trade_log[b].quantity
    /\ portfolio_history[k + 1].cash = CashBefore(k)
    /\ portfolio_history[k + 1].position = PositionBefore(k)

\* C5 as claimed: every such round trip restores cash and position.
C5_RoundTripRestores == \A k \in 1..MaxRows : RoundTrip(k) => Restored(k)

\* C5 as amended: a round trip that starts with no shares held restores cash and
\* position (Scenario B: cash back to 100000, position back to 0).
C5_RoundTripFromFlat == \A k \in 1..MaxRows : RoundTrip(k) /\ PositionBefore(k) = 0 => Restored(k)

\* Scenario B on an instance whose effective rates are 0
C5_Witness ==
    /\ RoundTrip(1)
    /\ i = 2
    /\ df[1].close = 100 /\ df[1].confidence = 10 /\ df[1].position_size = 1
    /\ portfolio_history[1].cash = 90000 * MoneyScale /\ portfolio_history[1].position = 100
    /\ backtester.cash = 100000 * MoneyScale /\ backtester.position = 0

\* C6 as claimed: a row dated earlier than the row before it is not processed and
\* the run returns no report.
C6_OutOfOrderRejected ==
    Started => \A k \in 2..Len(df) : df[k].date < df[k - 1].date => i < k /\ pc # "done"

\* C7: a run given the same rows as the previous run on the same configuration
\* produces, step for step, the same Trade Records and snapshots.
C7_SameInputSameHistories ==
    (Started /\ prev # <<>> /\ prev[1].df = df) =>
        /\ portfolio_history = SubSeq(prev[1].portfolio_history, 1, i)
        /\ trade_log = SubSeq(prev[1].trade_log, 1, Len(trade_log))
        /\ pc = "done" => trade_log = prev[1].trade_log

\* the same three rows ran twice and traded twice each time
C7_Witness ==
    /\ pc = "done"
    /\ prev # <<>>
    /\ prev[1].df = df
    /\ Len(df) = 3
    /\ Len(trade_log) = 2

\* C8: every run starts from cash = initial_cash, position = 0 and empty
\* histories, and ends with the histories and the report that the same rows give
\* on a newly constructed instance.
C8_RunStartsFresh ==
    /\ (pc = "running" /\ i = 0) =>
        /\ backtester.cash = backtester.initial_cash
        /\ backtester.position = 0
        /\ trade_log = <<>>
        /\ portfolio_history = <<>>
    /\ pc = "done" =>
        LET fresh == run_rows(Backtester_init(cfg, args), df, Len(df))
        IN /\ trade_log = fresh.trade_log
           /\ portfolio_history = fresh.portfolio_history
           /\ results = <<calculate_performance(fresh)>>

\* a second run, on other rows, of an instance whose first run ended holding shares
C8_Witness ==
    /\ pc = "done"
    /\ runs = 2
    /\ prev[1].df # df
    /\ prev[1].trade_log # <<>>
    /\ prev[1].portfolio_history[Len(prev[1].df)].position > 0
    /\ trade_log # <<>>

\* the total_value of the snapshots does not change over the run
ConstantValue == \A k \in 1..Len(portfolio_history) : portfolio_history[k].total_value = portfolio_history[1].total_value

\* C19: a finished run whose snapshots all have the same total_value, and a
\* finished run of a single row, report sharpe_ratio 0 (the int 0 of line 199),
\* not annual_return divided by a zero or NaN volatility.
C19_ZeroVolatilitySharpe ==
    (pc = "done" /\ Len(df) >= 1 /\ (ConstantValue \/ Len(df) = 1)) =>
        /\ ~results[1].empty
        /\ results[1].volatility \in {"0", "nan"}
        /\ results[1].sharpe_ratio = "0"

\* three rows at the same price and no trade: volatility 0, Sharpe ratio 0
C19_Witness ==
    /\ pc = "done"
    /\ Len(df) = 3
    /\ trade_log = <<>>
    /\ df[1].close = df[2].close /\ df[2].close = df[3].close
    /\ ConstantValue
    /\ results[1].volatility = "0"
    /\ results[1].sharpe_ratio = "0"

\* C20: the reported win rate is 0 when the trade log is empty; otherwise it is
\* the number of SELL records with net revenue > 0 plus the number of BUY records
\* that brought cash in (total_cost < 0), over the number of Trade Records; it
\* lies in [0, 1].
C20_WinRate ==
    (pc = "done" /\ Len(df) >= 1) =>
        LET w == results[1].win_rate
            sells == {t \in 1..Len(trade_log) : trade_log[t].action = "SELL" /\ trade_log[t].total_revenue > 0}
            buys == {t \in 1..Len(trade_log) : trade_log[t].action = "BUY" /\ trade_log[t].total_cost < 0}
        IN /\ trade_log = <<>> => w.num = 0
           /\ trade_log # <<>> => w.num = Cardinality(sells) + Cardinality(buys) /\ w.den = Len(trade_log)
           /\ 0 <= w.num /\ w.num <= w.den /\ w.den > 0

\* two BUYs and one SELL: win rate 1/3
C20_Witness ==
    /\ pc = "done"
    /\ Len(trade_log) = 3
    /\ trade_log[1].action = "BUY" /\ trade_log[2].action = "BUY" /\ trade_log[3].action = "SELL"
    /\ results[1].win_rate = [num |-> 1, den |-> 3]

\* Row k has been processed and was a hold (signal 0 or NaN), a BUY with no cash
\* or a SELL with no position.
NoOpRow(k) ==
    /\ k <= i
    /\ \/ df[k].signal \in {0, NaN}
       \/ df[k].signal = 1 /\ CashBefore(k) = 0
       \/ df[k].signal = -1 /\ PositionBefore(k) = 0

\* C15: a hold row, a BUY with cash 0 and a SELL with position 0 leave cash and
\* position as they were and append no Trade Record, and the row still gets its
\* snapshot, so that there is one snapshot per processed row.
C15_NoOpRows ==
    Started =>
        /\ Len(portfolio_history) = i
        /\ \A k \in 1..MaxRows :
            NoOpRow(k) =>
                /\ TradesOfRow(k) = {}
                /\ portfolio_history[k].date = df[k].date
                /\ portfolio_history[k].cash = CashBefore(k)
                /\ portfolio_history[k].position = PositionBefore(k)

\* a SELL with nothing held, then a BUY that spent all the cash, then a BUY with
\* no cash left: one Trade Record and three snapshots
C15_Witness ==
    /\ pc = "done"
    /\ Len(df) = 3
    /\ df[1].signal = -1 /\ df[2].signal = 1 /\ df[3].signal = 1
    /\ Len(trade_log) = 1
    /\ portfolio_history[2].cash = 0
    /\ NoOpRow(1) /\ NoOpRow(3)
    /\ Len(portfolio_history) = 3

\* the fill prices of row k, in money units: price * (1 + slippage) and
\* price * (1 - slippage)
BuyFillOfRow(k) == df[k].close * (RateScale + backtester.slippage) * (MoneyScale \div RateScale)
SellFillOfRow(k) == df[k].close * (RateScale - backtester.slippage) * (MoneyScale \div RateScale)
\* position_size * confidence of row k, in 1/(FracScale * FracScale)
FractionOfRow(k) == df[k].position_size * df[k].confidence
\* row k left cash and position as they were and appended no Trade Record
RowUnchanged(k) ==
    /\ TradesOfRow(k) = {}
    /\ portfolio_history[k].cash = CashBefore(k)
    /\ portfolio_history[k].position = PositionBefore(k)

\* q = floor(cash * position_size * confidence / fill) of a BUY row k
BuyQuantityOfRow(k) == MulDiv(CashBefore(k), FractionOfRow(k), FracScale * FracScale) \div BuyFillOfRow(k)
\* q * fill * (1 + fee_rate) <= cash
BuyCovered(k) == BuyQuantityOfRow(k) * BuyFillOfRow(k) + MulDiv(BuyQuantityOfRow(k) * BuyFillOfRow(k), backtester.transaction_fee, RateScale) <= CashBefore(k)

SellQuantityOfRow(k) == Min((PositionBefore(k) * FractionOfRow(k)) \div (FracScale * FracScale), PositionBefore(k))

IsPrefix(t, s) == Len(t) <= Len(s) /\ SubSeq(s, 1, Len(t)) = t

\* C23: the rows are processed once each, in the order given, and each row's
\* trade is executed before the row is valued: after k rows there are k
\* snapshots, the k-th has the k-th row's date and the cash and position the
\* row's trade left (those of its Trade Record if it has one, those before the
\* row if not), a row has at most one Trade Record and the records are in row
\* order; within a run every step leaves the histories as they were or appends
\* to them, one snapshot and at most one record per row.
C23_RowsInOrderTradeThenValue ==
    /\ [](Started =>
            /\ Len(portfolio_history) = i
            /\ Len(trade_log) <= i
            /\ \A k \in 1..i :
                /\ portfolio_history[k].date = df[k].date
                /\ Cardinality(TradesOfRow(k)) <= 1
                /\ \A t \in TradesOfRow(k) : portfolio_history[k].cash = trade_log[t].cash_after /\ portfolio_history[k].position = trade_log[t].position_after
                /\ TradesOfRow(k) = {} => portfolio_history[k].cash = CashBefore(k) /\ portfolio_history[k].position = PositionBefore(k)
            /\ \A t \in 1..Len(trade_log) : \E k \in 1..i : trade_log[t].date = df[k].date
            /\ \A t, u \in 1..Len(trade_log) : \A j, k \in 1..i : (t < u /\ trade_log[t].date = df[j].date /\ trade_log[u].date = df[k].date) => j < k)
    /\ [][pc = "running" =>
            /\ IsPrefix(backtester.portfolio_history, backtester'.portfolio_history)
            /\ IsPrefix(backtester.trade_log, backtester'.trade_log)
            /\ i' \in {i, i + 1}
            /\ Len(backtester'.portfolio_history) = Len(backtester.portfolio_history) + (i' - i)
            /\ Len(backtester'.trade_log) <= Len(backtester.trade_log) + (i' - i)
            /\ df' = df]_vars

\* rows given in descending date order: a BUY, a hold and a SELL, each followed
\* by its snapshot; the first and third snapshots hold the cash the trades left
C23_Witness ==
    /\ pc = "done"
    /\ Len(df) = 3
    /\ df[1].date > df[2].date
    /\ backtester.transaction_fee > 0
    /\ Len(trade_log) = 2
    /\ TradesOfRow(1) = {1} /\ TradesOfRow(2) = {} /\ TradesOfRow(3) = {2}
    /\ portfolio_history[1].cash = trade_log[1].cash_after
    /\ portfolio_history[2].cash = trade_log[1].cash_after
    /\ portfolio_history[3].cash = trade_log[2].cash_after
    /\ portfolio_history[3].cash # portfolio_history[2].cash

\* prod(1 + r_t) - 1 over the snapshots after the first, r_t = total_value[t] /
\* total_value[t - 1] - 1: the product telescopes to total_value[n] /
\* total_value[1], and is 1 when there is one snapshot
Compounded == [num |-> portfolio_history[Len(portfolio_history)].total_value - portfolio_history[1].total_value, den |-> portfolio_history[1].total_value]

\* C25 as claimed: the total return of the report equals the compounded
\* per-period returns of the snapshot history, in every run.
C25_TotalReturnIsCompounded ==
    (pc = "done" /\ Len(df) >= 1) =>
        RatEq(results[1].total_return.num + results[1].total_return.den, results[1].total_return.den, Compounded.num + Compounded.den, Compounded.den)

\* cash + position * p just before the trade of row k, p the close of row k
ValueBefore(k) == CashBefore(k) + PositionBefore(k) * df[k].close * MoneyScale
ConstantPrice == \A k \in 1..Len(df) : df[k].close = df[1].close

\* C26: a filled BUY or SELL never raises cash + position * p at the row's mark
\* price p, and leaves it equal exactly when the fee rate and the slippage rate
\* are both 0 (rates are fractions, here 0 or 0.001); so over rows of one price
\* the total_value of the snapshots never rises, starting from initial_cash.
C26_NoValueCreated ==
    Started =>
        /\ \A k \in 1..i :
            TradesOfRow(k) # {} =>
                /\ portfolio_history[k].total_value <= ValueBefore(k)
                /\ portfolio_history[k].total_value = ValueBefore(k) <=> (backtester.transaction_fee = 0 /\ backtester.slippage = 0)
        /\ ConstantPrice =>
            /\ i >= 1 => portfolio_history[1].total_value <= backtester.initial_cash
            /\ \A k \in 2..i : portfolio_history[k].total_value <= portfolio_history[k - 1].total_value

\* fee rate 0.001 and slippage 0: a BUY, a hold and a SELL at one price; the
\* total_value fell at the BUY and again at the SELL
C26_Witness ==
    /\ pc = "done"
    /\ Len(df) = 3
    /\ ConstantPrice
    /\ backtester.transaction_fee > 0 /\ backtester.slippage = 0
    /\ TradesOfRow(1) = {1} /\ trade_log[1].action = "BUY"
    /\ TradesOfRow(3) = {2} /\ trade_log[2].action = "SELL"
    /\ portfolio_history[1].total_value < backtester.initial_cash
    /\ portfolio_history[2].total_value = portfolio_history[1].total_value
    /\ portfolio_history[3].total_value < portfolio_history[2].total_value

-----------------------------------------------------------------------------
(* Properties of walk_forward_training *)

\* the starts 0, test_period, 2 * test_period, ... that leave room for a full
\* train and test window
FullWindowStarts == {s \in 0..wf.n : s % wf.test_period = 0 /\ s + wf.train_period + wf.test_period <= wf.n}

\* C9: with train_period >= 1 the call returns exactly one period per start in
\* FullWindowStarts, in order, with train window [start, start + train_period) and
\* test window [start + train_period, start + train_period + test_period); test
\* windows have test_period rows and do not overlap.
C9_ExactlyTheFullWindows ==
    (wf_pc \in {"returned", "raised"} /\ wf.train_period >= 1) =>
        /\ wf_pc = "returned"
        /\ Len(wf_results) = Cardinality(FullWindowStarts)
        /\ \A k \in 1..Len(wf_results) :
            LET r == wf_results[k]
                s == (k - 1) * wf.test_period
            IN /\ r.start = s
               /\ s \in FullWindowStarts
               /\ r.train = [lo |-> s, hi |-> s + wf.train_period]
               /\ r.test = [lo |-> s + wf.train_period, hi |-> s + wf.train_period + wf.test_period]
               /\ WindowLen(r.test) = wf.test_period
        /\ \A j, k \in 1..Len(wf_results) : j < k => wf_results[j].test.hi <= wf_results[k].test.lo

\* Scenario C: 1400 rows, 1000/200, two periods at start 0 and 200
C9_Witness ==
    /\ wf_pc = "returned"
    /\ wf = ScenarioC
    /\ Len(wf_results) = 2
    /\ wf_results[1].start = 0 /\ wf_results[2].start = 200
    /\ wf_results[2].test = [lo |-> 1200, hi |-> 1400]

WFEnded == wf_pc \in {"returned", "raised"}
TooShort == wf.n < wf.train_period + wf.test_period

\* C10: every call ends, and a call on fewer than train_period + test_period rows
\* returns the empty list, having trained nothing and raised nothing.
C10_TerminatesAndShortIsEmpty ==
    /\ (wf_pc = "loop") ~> WFEnded
    /\ (wf_pc = "loop" /\ TooShort) ~> (wf_pc = "returned")
    /\ []((wf_pc # "idle" /\ TooShort) => (wf_results = <<>> /\ trainer_calls = 0 /\ wf_pc # "raised"))

\* Scenario D: 50 rows, 1000/200, returned with no period
C10_Witness ==
    /\ wf_pc = "returned"
    /\ wf = ScenarioD
    /\ wf_results = <<>>
    /\ trainer_calls = 0

\* C17 as claimed: when the call has returned, the predictor each period result
\* refers to holds the model fitted on that period's train window, and no two
\* period results refer to the same predictor object.
C17_PredictorPerPeriod ==
    wf_pc = "returned" =>
        /\ \A k \in 1..Len(wf_results) : predictors[wf_results[k].predictor].model = wf_results[k].train
        /\ \A j, k \in 1..Len(wf_results) : j # k => wf_results[j].predictor # wf_results[k].predictor

\* C18 as claimed: every period result holds the Performance Report of a
\* backtest of that period's test window, run on a Backtester made for it.
C18_BacktestPerPeriod ==
    \A k \in 1..Len(wf_results) :
        /\ "performance_report" \in DOMAIN wf_results[k]
        /\ pc # "new"

\* the row positions of a window, and the number of rows two windows share
RowsOf(w) == {r \in 0..wf.n : w.lo <= r /\ r < w.hi}
Overlap(v, w) == Cardinality(RowsOf(v) \cap RowsOf(w))

\* C24: in every period every row of the train window lies before every row of
\* the test window, and both windows have rows; each period starts test_period
\* rows after the one before it, the first at row 0; and with train_period >
\* test_period consecutive train windows share train_period - test_period rows.
C24_NoLookAhead ==
    /\ [](/\ \A p \in 1..Len(wf_results) :
                LET r == wf_results[p]
                IN /\ RowsOf(r.train) # {} /\ RowsOf(r.test) # {}
                   /\ \A a \in RowsOf(r.train), b \in RowsOf(r.test) : a < b
                   /\ r.start = r.train.lo
                   /\ r.train_period = <<r.train.lo, r.train.hi - 1>> /\ r.test_period = <<r.test.lo, r.test.hi - 1>>
          /\ wf_results # <<>> => wf_results[1].start = 0
          /\ \A k \in 1..(Len(wf_results) - 1) :
                /\ wf_results[k + 1].start = wf_results[k].start + wf.test_period
                /\ wf.train_period > wf.test_period => Overlap(wf_results[k].train, wf_results[k + 1].train) = wf.train_period - wf.test_period)
    /\ [][(wf_pc = "loop" /\ start_idx' # start_idx) => start_idx' = start_idx + wf.test_period]_vars

\* 8 rows, train_period 3, test_period 2: periods at rows 0 and 2, train windows
\* [0, 3) and [2, 5) sharing one row, test windows [3, 5) and [5, 7)
C24_Witness ==
    /\ wf_pc = "returned"
    /\ wf = [n |-> 8, train_period |-> 3, test_period |-> 2]
    /\ Len(wf_results) = 2
    /\ wf_results[1].train = [lo |-> 0, hi |-> 3] /\ wf_results[1].test = [lo |-> 3, hi |-> 5]
    /\ wf_results[2].train = [lo |-> 2, hi |-> 5] /\ wf_results[2].test = [lo |-> 5, hi |-> 7]
    /\ Overlap(wf_results[1].train, wf_results[2].train) = 1

-----------------------------------------------------------------------------
(* Properties of run_pipeline *)

PipelineTooShort == wf.n < PipelineTrainPeriod + PipelineTestPeriod

\* C11 as claimed: a walk-forward pipeline run on data too short for one full
\* train+test window ends as a valid empty result: it returns its results and
\* main does not report a failure.
C11_ShortDataIsValidEmpty ==
    (pl_pc = "returned" /\ PipelineTooShort) => (pl_results[1].value = "results" /\ main_reports_success)

\* C27 as claimed: when run_pipeline returns its results, the rows of
\* processed_data that were given the last period's signals are the rows of that
\* period's test window, whatever the number of rows.
C27_SignalsOnPredictedRows ==
    (pl_pc = "returned" /\ pl_results[1].value = "results") =>
        /\ pl_results[1].strategy_data.predicted_rows = wf_results[Len(wf_results)].test
        /\ pl_results[1].strategy_data.signal_rows = wf_results[Len(wf_results)].test

-----------------------------------------------------------------------------
(* Properties of BatchRunner.run *)

Units == 1..Len(stocks)
OkUnits == {u \in Units : stocks[u] = "ok"}
\* the entries of self.results made for unit u
EntriesOf(u) == {k \in 1..Len(batch_results) : batch_results[k].code = u}
\* the status a unit of this kind is to be recorded with
StatusOfKind(kind) == CASE kind = "ok" -> "success" [] kind = "raises" -> "error" [] OTHER -> "failed"

\* C12: whatever the interleaving of the worker threads, when run returns every
\* unit has finished and has exactly one result, with status 'failed' or 'error'
\* if it failed and the unit's own success result otherwise, and the summary
\* counts the units that succeeded as successes and all other units as failures.
C12_FailuresStayPerUnit ==
    batch_pc = "returned" =>
        /\ Finished = Units
        /\ \A u \in Units :
            /\ Cardinality(EntriesOf(u)) = 1
            /\ \A k \in EntriesOf(u) :
                /\ batch_results[k].status = StatusOfKind(stocks[u])
                /\ u \in OkUnits => batch_results[k] = success_result(u)
        /\ summary[1].success = Cardinality(OkUnits)
        /\ summary[1].failed = Len(stocks) - Cardinality(OkUnits)

\* three units on two threads: the first raises, the second has too little data,
\* the third succeeds; the summary reports 1 success and 2 failures
C12_Witness ==
    /\ batch_pc = "returned"
    /\ workers = 2
    /\ stocks = <<"raises", "insufficient", "ok">>
    /\ batch_results[1].code = 3
    /\ summary[1] = [total |-> 3, success |-> 1, failed |-> 2]

\* C13 as claimed, the ordering part: the k-th entry of self.results is the
\* result of the k-th unit to finish.
C13_AppendedInCompletionOrder == \A k \in 1..Len(batch_results) : batch_results[k].code = finished_order[k]

\* position of unit u in the order of finishing
FinishPosition(u) == CHOOSE k \in 1..Len(finished_order) : finished_order[k] = u

\* C13 as amended: each unit the collecting loop has taken has exactly one entry
\* and one status line, in the order taken; at the return every unit has been
\* taken; a unit is taken only once it has finished, units that were finished
\* when collecting began first and after them each unit in order of finishing;
\* no step of a worker thread changes self.results; and print_summary runs only
\* when every unit has finished.
C13_CollectedAsYielded ==
    /\ [](/\ Len(batch_results) = Len(yielded)
          /\ Len(lines) = Len(yielded)
          /\ \A k \in 1..Len(yielded) : batch_results[k].code = yielded[k] /\ lines[k].code = yielded[k] /\ lines[k].status = batch_results[k].status
          /\ \A j, k \in 1..Len(yielded) : j # k => yielded[j] # yielded[k]
          /\ batch_pc = "returned" => Yielded = Units
          /\ summary # <<>> => Finished = Units /\ Len(batch_results) = Len(stocks))
    /\ [][Len(yielded') = Len(yielded) + 1 =>
            LET u == yielded'[Len(yielded')]
            IN /\ u \in Finished
               /\ ac_ready # {} => u \in ac_ready
               /\ ac_ready = {} => \A v \in Finished \ Yielded : FinishPosition(u) <= FinishPosition(v)]_vars
    /\ [][batch_results' # batch_results => futures' = futures /\ finished_order' = finished_order]_vars

\* three units on two threads: the second finished before the first, and the
\* first before collecting began; the third finished after collecting began; the
\* results are in the order 1, 2, 3 although 2 finished before 1
C13_Witness ==
    /\ batch_pc = "returned"
    /\ workers = 2
    /\ Len(stocks) = 3
    /\ finished_order = <<2, 1, 3>>
    /\ yielded = <<1, 2, 3>>
    /\ Len(lines) = 3

-----------------------------------------------------------------------------
(* Properties of the signal generation *)

\* the call in progress is generate_trading_strategy and it has ended
StrategyEnded == sig_pc \in {"returned", "raised"} /\ sig_in.fn = "generate_trading_strategy"

\* The output o is what the Signal Translator is to give for prediction p with
\* thresholds b and s and position cap m: min(p / 2b, 1) is written
\* min(p, 2b) / 2b, and the equations are multiplied out.
TranslatesTo(p, b, s, m, o) ==
    /\ (p # NaN /\ p > b) => o.signal = 1 /\ o.confidence * (2 * b) = Min(p, 2 * b) * SignalScale
    /\ (p # NaN /\ p < s) => o.signal = -1 /\ o.confidence * (2 * Abs(s)) = Min(Abs(p), 2 * Abs(s)) * SignalScale
    /\ (p = NaN \/ (p <= b /\ p >= s)) => o.signal = 0 /\ o.confidence = 0
    /\ o.position_size * SignalScale = o.confidence * m
    /\ 0 <= o.confidence /\ o.confidence <= SignalScale
    /\ o.position_size <= m

\* C14: every prediction, NaN included, is translated as the rules say, for the
\* caller's thresholds (buy above 0, sell below 0) and position cap and for the
\* defaults 0.02, -0.02 and 0.2 that generate_trading_strategy uses; confidence
\* is in [0, 1] and the position size is confidence * max_position, at most
\* max_position.
C14_SignalTranslation ==
    /\ (sig_pc = "returned" /\ sig_in.fn = "generate_signals_with_confidence") =>
        TranslatesTo(sig_in.predictions[1], sig_in.buy_threshold, sig_in.sell_threshold, sig_in.max_position, sig_out[1][1])
    /\ (sig_pc = "returned" /\ sig_in.fn = "generate_trading_strategy") =>
        \A k \in 1..Len(sig_in.predictions) :
            TranslatesTo(sig_in.predictions[k], DefaultBuyThreshold, DefaultSellThreshold, DefaultMaxPosition, sig_out[1][sig_in.rows - Len(sig_in.predictions) + k])

\* a NaN prediction became hold with confidence 0, and the prediction 0.024 a BUY
\* with confidence 0.6 and position size 0.12
C14_Witness ==
    /\ sig_pc = "returned"
    /\ sig_in.fn = "generate_trading_strategy"
    /\ sig_in.rows = 2
    /\ sig_in.predictions = <<NaN, 24>>
    /\ sig_out[1][1] = [signal |-> 0, confidence |-> 0, position_size |-> 0]
    /\ sig_out[1][2] = [signal |-> 1, confidence |-> 600, position_size |-> 120]

\* C16 as claimed: when the number of predictions differs from the number of
\* rows, generate_trading_strategy raises and returns no signal table.
C16_MismatchAborts == (StrategyEnded /\ Len(sig_in.predictions) # sig_in.rows) => sig_pc = "raised"

-----------------------------------------------------------------------------
(* Properties of the batch Backtester *)

BatchReturned == bb_pc = "returned"
BatchData == bb_out[1].data

\* C28: in the frame run_backtest returns, the strategy return of the first row
\* is NaN and adds nothing to strategy_return, and that of row t > 1 is the
\* signal of row t - 1 (which is the sign of pred of row t - 1) times the price
\* return from row t - 1 to row t; the net return is the strategy return less
\* |signal[t] - signal[t - 1]| * transaction_fee, which is 0 on a row whose
\* signal is that of the row before.
C28_StrategyReturnLagged ==
    BatchReturned =>
        /\ Len(BatchData) = Len(bb_in.df)
        /\ \A t \in 1..Len(BatchData) :
            LET sign(x) == IF x > 0 THEN 1 ELSE IF x < 0 THEN -1 ELSE 0
            IN /\ BatchData[t].signal = sign(bb_in.df[t].pred)
               /\ t = 1 => BatchData[t].strat_ret = NaN /\ BatchData[t].strat_ret_net = NaN
               /\ t > 1 =>
                    /\ BatchData[t].strat_ret * bb_in.df[t - 1].close = sign(bb_in.df[t - 1].pred) * (bb_in.df[t].close - bb_in.df[t - 1].close) * RateScale
                    /\ BatchData[t].strat_ret_net = BatchData[t].strat_ret - Abs(BatchData[t].signal - BatchData[t - 1].signal) * bb_self.transaction_fee
                    /\ BatchData[t].signal = BatchData[t - 1].signal => BatchData[t].strat_ret_net = BatchData[t].strat_ret
        /\ bb_out[1].strategy_return = 100 * column_sum(BatchData, "strat_ret", Len(BatchData))
        /\ Len(BatchData) = 1 => bb_out[1].strategy_return = 0 /\ bb_out[1].strategy_return_net = 0

\* prices 100, 125, 100 with signals 1, -1, -1 and fee rate 0.001: strategy
\* returns NaN, 0.25, 0.2 and net returns NaN, 0.248, 0.2
C28_Witness ==
    /\ BatchReturned
    /\ bb_self.transaction_fee = 1
    /\ Len(BatchData) = 3
    /\ BatchData[1].close = 100 /\ BatchData[2].close = 125 /\ BatchData[3].close = 100
    /\ BatchData[1].signal = 1 /\ BatchData[2].signal = -1 /\ BatchData[3].signal = -1
    /\ BatchData[1].strat_ret = NaN /\ BatchData[2].strat_ret = 250 /\ BatchData[3].strat_ret = 200
    /\ BatchData[2].strat_ret_net = 248 /\ BatchData[3].strat_ret_net = 200

\* C29 as claimed: for a batch unit the accuracy run_backtest reports is the
\* share of the rows of the test window, the BatchTestRows rows passed by
\* process_single_stock, on which (pred > 0) equals (target > 0).
C29_AccuracyOverTestWindow ==
    (BatchReturned /\ bb_in.caller = "process_single_stock") =>
        LET matching == {t \in 1..Len(bb_in.df) : (bb_in.df[t].pred > 0) = (bb_in.df[t].target > 0)}
        IN /\ Len(bb_in.df) = BatchTestRows
           /\ bb_out[1].accuracy.num * Len(bb_in.df) = Cardinality(matching) * bb_out[1].accuracy.den

-----------------------------------------------------------------------------
(* Properties of DataManager.get_stock_data *)

CacheHit == ~dm_in.force_update /\ is_cache_valid(dm_in.files, dm_in.fresh)
\* the attempts made that returned at least MinDownloadRows rows
Successes == {k \in 1..Len(attempt_log) : attempt_log[k].kind = "df" /\ attempt_log[k].rows >= MinDownloadRows}

\* C30: a call with force_update false and a valid cache file of today returns
\* that file and makes no download attempt.  Any other call makes at most
\* MAX_RETRIES attempts and none after the first that returns at least 100 rows;
\* after such an attempt it writes today's cache file and returns the frame; if
\* no attempt succeeds it makes all MAX_RETRIES attempts, leaves the files as
\* they were, and returns one of the stock's cache files if there is one and
\* None if there is none.  The result is None only then.  Every call returns.
C30_BoundedRetry ==
    /\ [](/\ Len(attempt_log) <= dm_in.MAX_RETRIES
          /\ \A k \in Successes : k = Len(attempt_log)
          /\ CacheHit => attempt_log = <<>>
          /\ dm_pc = "returned" =>
                /\ CacheHit => dm_out[1] = Frame("cache", "today") /\ files = dm_in.files
                /\ (~CacheHit /\ Successes # {}) => dm_out[1] = Frame("download", "today") /\ files = dm_in.files \cup {"today"}
                /\ (~CacheHit /\ Successes = {}) =>
                    /\ Len(attempt_log) = dm_in.MAX_RETRIES
                    /\ files = dm_in.files
                    /\ dm_in.files # {} => dm_out[1].available /\ dm_out[1].origin = "old_cache" /\ dm_out[1].file \in dm_in.files
                    /\ dm_in.files = {} => dm_out[1] = NoFrame
                /\ ~dm_out[1].available <=> (~CacheHit /\ Successes = {} /\ dm_in.files = {}))
    /\ (dm_pc = "called") ~> (dm_pc = "returned")

\* MAX_RETRIES = 3 and a forced update with an older cache file: the first
\* attempt raised, the second returned 99 rows, the third returned 100 rows,
\* which were written to today's file and returned
C30_Witness ==
    /\ dm_pc = "returned"
    /\ dm_in.force_update /\ dm_in.MAX_RETRIES = 3 /\ dm_in.files = {"older"}
    /\ Len(attempt_log) = 3
    /\ attempt_log[1].kind = "raises"
    /\ attempt_log[2] = [kind |-> "df", rows |-> MinDownloadRows - 1]
    /\ attempt_log[3] = [kind |-> "df", rows |-> MinDownloadRows]
    /\ dm_out[1] = Frame("download", "today")
    /\ files = {"today", "older"}

====
